---- MODULE Spec2Model ----
(***************************************************************************)
(* Nutrition computation and substitution engine.                          *)
(*                                                                         *)
(* Numbers are fixed point integers:                                       *)
(*   portion quantities        tenths of the unit   (1000 = 100.0 g)       *)
(*   gram amounts              tenths of a gram                            *)
(*   macro amounts             hundredths           (16500 = 165.00 kcal)  *)
(*   percentages, part scores  hundredths of a point (500 = 5.00)          *)
(*   totalScore                thousandths of a point (5000 = 5 points)    *)
(*   confidence                hundredths           (70 = 0.7)             *)
(*   density                   thousandths of g/ml                         *)
(* Strings that the code inspects character by character (food names,      *)
(* allergens, dislikes) are tuples of one-character strings.               *)
(***************************************************************************)
EXTENDS Integers, Sequences, FiniteSets, TLC

VARIABLES catalog, foodIndex, lastCall, service, cache, now

vars == <<catalog, foodIndex, lastCall, service, cache, now>>

\* An absent optional number (undefined in the source).
NoValue == -1

\* ------------------------------------------------------------------------
\* Bounds of the model
\* ------------------------------------------------------------------------
MaxFoods == 3
MaxRankings == 2
MaxItems == 2
MaxMeals == 2

\* ------------------------------------------------------------------------
\* Strings
\* ------------------------------------------------------------------------
UpperChars == <<"A","B","C","D","E","F","G","H","I","J","K","L","M",
                "N","O","P","Q","R","S","T","U","V","W","X","Y","Z">>
LowerChars == <<"a","b","c","d","e","f","g","h","i","j","k","l","m",
                "n","o","p","q","r","s","t","u","v","w","x","y","z">>

LowerChar(c) ==
  IF \E i \in 1..26 : UpperChars[i] = c
  THEN LowerChars[CHOOSE i \in 1..26 : UpperChars[i] = c]
  ELSE c

\* String.prototype.toLowerCase
toLowerCase(s) == [i \in 1..Len(s) |-> LowerChar(s[i])]

\* String.prototype.includes
includes(hay, needle) ==
  \E i \in 0..(Len(hay) - Len(needle)) :
     \A j \in 1..Len(needle) : hay[i + j] = needle[j]

\* ------------------------------------------------------------------------
\* Unit conversion (units.ts)
\* ------------------------------------------------------------------------
\* factor per unit as <<numerator, denominator>>
MASS_TO_GRAMS ==
  [g |-> <<1, 1>>, kg |-> <<1000, 1>>, mg |-> <<1, 1000>>,
   lb |-> <<45359, 100>>, oz |-> <<28350, 1000>>]

VOLUME_TO_ML ==
  [ml |-> <<1, 1>>, l |-> <<1000, 1>>, tsp |-> <<4929, 1000>>,
   tbsp |-> <<14787, 1000>>, cup |-> <<240, 1>>]

\* keys every object literal inherits from Object.prototype: the in operator
\* finds them as it finds the object's own keys
ObjectPrototypeKeys == {"constructor", "toString", "valueOf", "hasOwnProperty", "__proto__"}

\* the product of a number and something that is not a number
NaN == "NaN"

\* unit in MASS_TO_GRAMS
isMassUnit(unit) == unit \in DOMAIN MASS_TO_GRAMS \cup ObjectPrototypeKeys

\* unit in VOLUME_TO_ML
isVolumeUnit(unit) == unit \in DOMAIN VOLUME_TO_ML \cup ObjectPrototypeKeys

Ok(v) == [ok |-> TRUE, val |-> v]

Throw(e) == [ok |-> FALSE, err |-> e]

toGrams(quantity, unit) ==
  IF ~isMassUnit(unit) THEN Throw("not a mass unit")
  ELSE IF unit \in DOMAIN MASS_TO_GRAMS
       THEN Ok((quantity * MASS_TO_GRAMS[unit][1]) \div MASS_TO_GRAMS[unit][2])
       ELSE Ok(NaN)

toMilliliters(quantity, unit) ==
  IF ~isVolumeUnit(unit) THEN Throw("not a volume unit")
  ELSE IF unit \in DOMAIN VOLUME_TO_ML
       THEN Ok((quantity * VOLUME_TO_ML[unit][1]) \div VOLUME_TO_ML[unit][2])
       ELSE Ok(NaN)

portionToGrams(quantity, unit, densityGPerMl) ==
  IF isMassUnit(unit) THEN toGrams(quantity, unit)
  ELSE IF isVolumeUnit(unit)
       THEN IF densityGPerMl = NoValue
            THEN Throw("Density required to convert volume to grams")
            ELSE Ok((toMilliliters(quantity, unit).val * densityGPerMl) \div 1000)
       ELSE IF unit = "piece"
            THEN Throw("'piece' requires a per-piece gram equivalence")
            ELSE Throw("Unsupported unit")

\* ------------------------------------------------------------------------
\* Food catalog
\* ------------------------------------------------------------------------
Macros(cal, pro, carb, fat, fiber, sugar) ==
  [caloriesKcal |-> cal, proteinG |-> pro, carbsG |-> carb, fatG |-> fat,
   fiberG |-> fiber, sugarG |-> sugar]

Portion(q, u) == [quantity |-> q, unit |-> u]

Food(id, name, base, m, density, source, confidence) ==
  [id |-> id, name |-> name, basePortion |-> base, macrosPerBase |-> m,
   densityGPerMl |-> density,
   metadata |-> [source |-> source, confidence |-> confidence]]

ChickenFood ==
  Food("chicken", <<"C","h","i","c","k","e","n">>, Portion(1000, "g"),
       Macros(16500, 3100, 0, 360, 0, 0), NoValue, "none", NoValue)

\* a second record of the resolution service carrying the same id
ChickenOffFood ==
  Food("chicken", <<"C","h","i","c","k","e","n"," ","R","a","w">>, Portion(1000, "g"),
       Macros(16500, 3100, 0, 360, NoValue, NoValue), NoValue, "open_food_facts", 80)

TurkeyFood ==
  Food("turkey", <<"T","u","r","k","e","y">>, Portion(1000, "g"),
       Macros(15000, 2750, 0, 340, NoValue, 0), NoValue, "usda_fdc", 90)

EggFood ==
  Food("egg_whole", <<"E","g","g",","," ","w","h","o","l","e">>, Portion(500, "g"),
       Macros(8250, 1525, 0, 182, NoValue, 10), NoValue, "local", 100)

PeanutFood ==
  Food("peanut_mix", <<"P","e","a","N","u","t","s">>, Portion(1000, "g"),
       Macros(16500, 3100, 0, 400, 100, 0), NoValue, "none", NoValue)

TofuFood ==
  Food("tofu_rice", <<"T","o","f","u"," ","r","i","c","e">>, Portion(1000, "ml"),
       Macros(16500, 2500, 0, 400, 0, 0), 1000, "local", 100)

\* a user-contributed record whose source rates it with confidence 0
SeitanFood ==
  Food("seitan", <<"S","e","i","t","a","n">>, Portion(1000, "g"),
       Macros(16500, 3000, 0, 370, NoValue, NoValue), NoValue, "user_contributed", 0)

FoodUniverse ==
  <<ChickenFood, ChickenOffFood, TurkeyFood, EggFood, PeanutFood, TofuFood, SeitanFood>>

\* ------------------------------------------------------------------------
\* Open Food Facts client (openFoodFactsClient.ts)
\* ------------------------------------------------------------------------
\* nutriments of a product per 100 g; NoValue marks a field not present
Nutriments(energyKcal, energy, proteins, carbohydrates, fat, fiber, sugars) ==
  [energy_kcal_100g |-> energyKcal, energy_100g |-> energy, proteins_100g |-> proteins,
   carbohydrates_100g |-> carbohydrates, fat_100g |-> fat, fiber_100g |-> fiber,
   sugars_100g |-> sugars]

\* an OpenFoodFactsProduct; hasNutriments is FALSE when the field is missing
Product(code, product_name, hasNutriments, nutriments) ==
  [code |-> code, product_name |-> product_name, hasNutriments |-> hasNutriments,
   nutriments |-> nutriments]

isValidProduct(product) ==
  /\ product.product_name # <<>>
  /\ product.hasNutriments
  /\ \/ (product.nutriments.energy_100g # NoValue /\ product.nutriments.energy_100g > 0)
     \/ (product.nutriments.energy_kcal_100g # NoValue
           /\ product.nutriments.energy_kcal_100g > 0)
  /\ \/ (product.nutriments.proteins_100g # NoValue /\ product.nutriments.proteins_100g >= 0)
     \/ (product.nutriments.carbohydrates_100g # NoValue
           /\ product.nutriments.carbohydrates_100g >= 0)
     \/ (product.nutriments.fat_100g # NoValue /\ product.nutriments.fat_100g >= 0)

\* maxValues per macro type, in hundredths of a gram
maxValues == [protein |-> 5000, carbs |-> 10000, fat |-> 10000, fiber |-> 5000, sugar |-> 10000]

validateMacroValue(value, macroType) ==
  IF value = NoValue \/ value < 0 THEN 0
  ELSE IF value < maxValues[macroType] THEN value ELSE maxValues[macroType]

\* a || b || 0 over numbers
FirstTruthy(a, b) ==
  IF a # NoValue /\ a # 0 THEN a ELSE IF b # NoValue /\ b # 0 THEN b ELSE 0

\* OpenFoodFactsClient.convertToFoodItem: the metadata carries no confidence
convertToFoodItem(product) ==
  Food("off_" \o product.code, product.product_name, Portion(1000, "g"),
       Macros(FirstTruthy(product.nutriments.energy_kcal_100g, product.nutriments.energy_100g),
              validateMacroValue(product.nutriments.proteins_100g, "protein"),
              validateMacroValue(product.nutriments.carbohydrates_100g, "carbs"),
              validateMacroValue(product.nutriments.fat_100g, "fat"),
              validateMacroValue(product.nutriments.fiber_100g, "fiber"),
              validateMacroValue(product.nutriments.sugars_100g, "sugar")),
       NoValue, "open_food_facts", NoValue)

OatBarProduct ==
  Product("1", <<"O","a","t"," ","b","a","r">>, TRUE,
          Nutriments(40000, NoValue, 800, 6000, 1400, 500, 2000))

\* the food an external lookup of id "off_1" yields
OffFood == convertToFoodItem(OatBarProduct)

\* foodId -> grams per piece
PIECE_MAP == [egg_whole |-> 50]

RECURSIVE SubSeqsOf(_)
\* all order-preserving selections of a sequence
SubSeqsOf(s) ==
  IF s = <<>> THEN {<<>>}
  ELSE LET rest == SubSeqsOf(Tail(s))
       IN rest \cup {<<Head(s)>> \o r : r \in rest}

Catalogs == {c \in SubSeqsOf(FoodUniverse) : Len(c) >= 1 /\ Len(c) <= MaxFoods}

\* ------------------------------------------------------------------------
\* Food resolution service, lookup by id (hybridFoodService.ts)
\* ------------------------------------------------------------------------
IsLocalFood(f) == f.metadata.source \in {"none", "local"}

LocalFoods(foods) == SelectSeq(foods, IsLocalFood)

getLocalFoodById(foods, id) ==
  LET hits == SelectSeq(LocalFoods(foods), LAMBDA f : f.id = id)
  IN IF hits = <<>> THEN <<>> ELSE <<Head(hits)>>

OffIds == {"off_1"}

\* outcomes of the external barcode endpoint and of the lookup as a whole
ExtOutcomes == {"found", "notfound", "error", "throws"}

\* HybridFoodService.getFoodById: <<food>>, <<>> for null, or a thrown error
HybridGetFoodById(foods, id, ext) ==
  IF ext = "throws" THEN Throw("lookup failed")
  ELSE LET local == getLocalFoodById(foods, id)
       IN IF local # <<>>
          THEN Ok(<<[local[1] EXCEPT !.metadata = [source |-> "local", confidence |-> 100]]>>)
          ELSE IF id \in OffIds /\ ext = "found" THEN Ok(<<OffFood>>)
               ELSE Ok(<<>>)

\* ------------------------------------------------------------------------
\* Macro engine (macroEngine.ts)
\* ------------------------------------------------------------------------
\* new Map(foods.map(f => [f.id, f])): a later entry replaces an earlier one
RECURSIVE IndexOf(_)
IndexOf(foods) ==
  IF foods = <<>> THEN <<>>
  ELSE LET f == foods[Len(foods)]
           before == IndexOf(SubSeq(foods, 1, Len(foods) - 1))
       IN SelectSeq(before, LAMBDA g : g.id # f.id) \o <<f>>

IndexGet(index, id) ==
  LET hits == SelectSeq(index, LAMBDA f : f.id = id)
  IN IF hits = <<>> THEN <<>> ELSE <<hits[1]>>

\* An engine is [index, hybrid, pieceMap].
Engine(index, hybrid, pieceMap) == [index |-> index, hybrid |-> hybrid, pieceMap |-> pieceMap]

\* the hybrid lookup of getFood without its try/catch: a failing lookup rejects
cacheHybridFood_uncaught(engine, r) ==
  IF ~r.ok THEN [ok |-> FALSE, food |-> <<>>, index |-> engine.index]
  ELSE IF r.val # <<>>
  THEN [ok |-> TRUE, food |-> r.val, index |-> engine.index \o r.val]
  ELSE [ok |-> TRUE, food |-> <<>>, index |-> engine.index]

\* the hybrid lookup r of getFood inside its try/catch; a food found is cached
\* by this.foodIndex.set(foodId, hybridFood)
cacheHybridFood(engine, r) ==
  IF r.ok /\ r.val # <<>>
  THEN [ok |-> TRUE, food |-> r.val, index |-> engine.index \o r.val]
  ELSE [ok |-> TRUE, food |-> <<>>, index |-> engine.index]

\* MacroEngine.getFood: food is <<f>> or <<>> (undefined); index is the index
\* afterwards; ok is FALSE when the call rejects
getFood(engine, foodId, ext) ==
  IF IndexGet(engine.index, foodId) # <<>>
  THEN [ok |-> TRUE, food |-> IndexGet(engine.index, foodId), index |-> engine.index]
  ELSE IF engine.hybrid
       THEN cacheHybridFood(engine, HybridGetFoodById(catalog, foodId, ext))
       ELSE [ok |-> TRUE, food |-> <<>>, index |-> engine.index]

\* a piece branch that forgets the quantity
resolvePortionGrams_onePiece(engine, food, portion) ==
  IF portion.unit = "piece"
  THEN IF food.id \notin DOMAIN engine.pieceMap
       THEN Throw("Missing grams per piece")
       ELSE Ok(10 * engine.pieceMap[food.id])
  ELSE IF isMassUnit(portion.unit) \/ isVolumeUnit(portion.unit)
       THEN portionToGrams(portion.quantity, portion.unit, food.densityGPerMl)
       ELSE Throw("Unsupported unit")

\* MacroEngine.resolvePortionGrams
resolvePortionGrams(engine, food, portion) ==
  IF portion.unit = "piece"
  THEN IF food.id \notin DOMAIN engine.pieceMap
       THEN Throw("Missing grams per piece")
       ELSE Ok(portion.quantity * engine.pieceMap[food.id])
  ELSE IF isMassUnit(portion.unit) \/ isVolumeUnit(portion.unit)
       THEN portionToGrams(portion.quantity, portion.unit, food.densityGPerMl)
       ELSE Throw("Unsupported unit")

ZeroMacros == Macros(0, 0, 0, 0, 0, 0)

Scale(m, grams, baseGrams) == (m * grams) \div baseGrams

\* the macros of food m for grams over baseGrams, both results of
\* resolvePortionGrams: the first failure is thrown
scaledMacros(m, grams, baseGrams, index) ==
  IF ~grams.ok THEN [ok |-> FALSE, err |-> grams.err, index |-> index]
  ELSE IF ~baseGrams.ok THEN [ok |-> FALSE, err |-> baseGrams.err, index |-> index]
  ELSE [ok |-> TRUE,
        val |-> Macros(Scale(m.caloriesKcal, grams.val, baseGrams.val),
                       Scale(m.proteinG, grams.val, baseGrams.val),
                       Scale(m.carbsG, grams.val, baseGrams.val),
                       Scale(m.fatG, grams.val, baseGrams.val),
                       IF m.fiberG # NoValue
                       THEN Scale(m.fiberG, grams.val, baseGrams.val) ELSE NoValue,
                       IF m.sugarG # NoValue
                       THEN Scale(m.sugarG, grams.val, baseGrams.val) ELSE NoValue),
        index |-> index]

\* computeItemMacros after the lookup got of its food
itemMacrosOf(engine, got, portion) ==
  IF ~got.ok THEN [ok |-> FALSE, err |-> "lookup failed", index |-> got.index]
  ELSE IF got.food = <<>> THEN [ok |-> TRUE, val |-> ZeroMacros, index |-> got.index]
  ELSE scaledMacros(got.food[1].macrosPerBase,
                    resolvePortionGrams(engine, got.food[1], portion),
                    resolvePortionGrams(engine, got.food[1], got.food[1].basePortion),
                    got.index)

\* MacroEngine.computeItemMacros: [ok, val | err, index]
computeItemMacros(engine, foodId, portion, ext) ==
  itemMacrosOf(engine, getFood(engine, foodId, ext), portion)

\* the console.warn calls of computeItemMacros after the lookup got of its
\* food; hasWindow is typeof window !== "undefined"
itemWarnings(got, foodId, hasWindow) ==
  IF got.ok /\ got.food = <<>> /\ hasWindow THEN <<foodId>> ELSE <<>>

\* (x ?? 0)
OrZero(x) == IF x = NoValue THEN 0 ELSE x

\* the reducer of computeMealMacros and computeDayMacros
AddMacros(acc, m) ==
  Macros(acc.caloriesKcal + m.caloriesKcal, acc.proteinG + m.proteinG,
         acc.carbsG + m.carbsG, acc.fatG + m.fatG,
         OrZero(acc.fiberG) + OrZero(m.fiberG), OrZero(acc.sugarG) + OrZero(m.sugarG))

RECURSIVE SumMacros(_)
SumMacros(ms) ==
  IF ms = <<>> THEN ZeroMacros
  ELSE AddMacros(SumMacros(SubSeq(ms, 1, Len(ms) - 1)), ms[Len(ms)])

\* Promise.all: r joins the outcomes before it, a value or a rejection
settle(before, r) ==
  [vals |-> IF r.ok THEN before.vals \o <<r.val>> ELSE before.vals,
   errs |-> IF r.ok THEN before.errs ELSE before.errs \o <<r.err>>,
   index |-> r.index]

\* the call for item it, made on the index the earlier calls left
itemAfter(engine, before, it, ext) ==
  settle(before, computeItemMacros([engine EXCEPT !.index = before.index],
                                   it.foodId, it.portion, ext))

\* Promise.all over the items: every call runs (and may fill the index); the
\* outcome is the list of values, or the first rejection.
RECURSIVE ItemResults(_, _, _)
ItemResults(engine, items, ext) ==
  IF items = <<>> THEN [vals |-> <<>>, errs |-> <<>>, index |-> engine.index]
  ELSE itemAfter(engine, ItemResults(engine, SubSeq(items, 1, Len(items) - 1), ext),
                 items[Len(items)], ext)

\* the reduce of computeMealMacros over the settled items rs
mealTotal(rs) ==
  IF rs.errs # <<>> THEN [ok |-> FALSE, err |-> rs.errs[1], index |-> rs.index]
  ELSE [ok |-> TRUE, val |-> SumMacros(rs.vals), index |-> rs.index]

\* MacroEngine.computeMealMacros: [ok, val | err, index]
computeMealMacros(engine, items, ext) == mealTotal(ItemResults(engine, items, ext))

\* the call for one meal, made on the index the earlier calls left
mealAfter(engine, before, meal, ext) ==
  settle(before, computeMealMacros([engine EXCEPT !.index = before.index], meal, ext))

RECURSIVE MealResults(_, _, _)
MealResults(engine, meals, ext) ==
  IF meals = <<>> THEN [vals |-> <<>>, errs |-> <<>>, index |-> engine.index]
  ELSE mealAfter(engine, MealResults(engine, SubSeq(meals, 1, Len(meals) - 1), ext),
                 meals[Len(meals)], ext)

\* a reduce that leaves the first meal out of the total
dayTotal_withoutFirstMeal(rs) ==
  IF rs.errs # <<>> THEN [ok |-> FALSE, err |-> rs.errs[1], index |-> rs.index]
  ELSE [ok |-> TRUE,
        val |-> [total |-> IF rs.vals = <<>> THEN Macros(0, 0, 0, 0, 0, 0)
                           ELSE [caloriesKcal |-> rs.vals[Len(rs.vals)].caloriesKcal,
                                 proteinG |-> rs.vals[Len(rs.vals)].proteinG,
                                 carbsG |-> rs.vals[Len(rs.vals)].carbsG,
                                 fatG |-> rs.vals[Len(rs.vals)].fatG,
                                 fiberG |-> rs.vals[Len(rs.vals)].fiberG,
                                 sugarG |-> rs.vals[Len(rs.vals)].sugarG],
                 perMeal |-> rs.vals],
        index |-> rs.index]

\* the reduce of computeDayMacros over the settled meals rs
dayTotal(rs) ==
  IF rs.errs # <<>> THEN [ok |-> FALSE, err |-> rs.errs[1], index |-> rs.index]
  ELSE [ok |-> TRUE, val |-> [total |-> SumMacros(rs.vals), perMeal |-> rs.vals],
        index |-> rs.index]

\* MacroEngine.computeDayMacros: [ok, val = [total, perMeal] | err, index]
computeDayMacros(engine, meals, ext) == dayTotal(MealResults(engine, meals, ext))

\* ------------------------------------------------------------------------
\* Substitution engine (substitutionEngine.ts)
\* ------------------------------------------------------------------------
DefaultMacroTolerancePercent == 500
DefaultMaxSuggestions == 10
DefaultMinConfidence == 70

\* constraints as passed by the caller; NoValue marks a field not supplied
Constraints(tol, maxS, minC, prefs) ==
  [macroTolerancePercent |-> tol, maxSuggestions |-> maxS, minConfidence |-> minC,
   preferences |-> prefs]

\* { ...defaults, ...constraints }
EffectiveConstraints(c) ==
  [macroTolerancePercent |->
     IF c.macroTolerancePercent = NoValue THEN DefaultMacroTolerancePercent
     ELSE c.macroTolerancePercent,
   maxSuggestions |->
     IF c.maxSuggestions = NoValue THEN DefaultMaxSuggestions ELSE c.maxSuggestions,
   minConfidence |->
     IF c.minConfidence = NoValue THEN DefaultMinConfidence ELSE c.minConfidence,
   preferences |-> c.preferences]

NoPreferences == [given |-> FALSE, allergies |-> <<>>, dislikes |-> <<>>]

Preferences(allergies, dislikes) ==
  [given |-> TRUE, allergies |-> allergies, dislikes |-> dislikes]

\* the engine's own macro engine: no hybrid service, no piece map
SubstitutionMacroEngine == Engine(IndexOf(catalog), FALSE, <<>>)

\* HybridFoodService.getAllFoods as the engine uses it
getAllFoods == catalog

\* respectsPreferences comparing the name as written
respectsPreferences_caseSensitive(food, preferences) ==
  /\ \A i \in 1..Len(preferences.allergies) :
       ~includes(food.name, toLowerCase(preferences.allergies[i]))
  /\ \A i \in 1..Len(preferences.dislikes) :
       ~includes(food.name, toLowerCase(preferences.dislikes[i]))

respectsPreferences(food, preferences) ==
  LET foodNameLower == toLowerCase(food.name)
  IN /\ \A i \in 1..Len(preferences.allergies) :
          ~includes(foodNameLower, toLowerCase(preferences.allergies[i]))
     /\ \A i \in 1..Len(preferences.dislikes) :
          ~includes(foodNameLower, toLowerCase(preferences.dislikes[i]))

\* a number is truthy when it is defined and not 0
Truthy(x) == x # NoValue /\ x # 0

passesBasicFilters(candidate, constraints) ==
  /\ (Truthy(constraints.minConfidence) /\ Truthy(candidate.metadata.confidence))
        => ~(candidate.metadata.confidence < constraints.minConfidence)
  /\ constraints.preferences.given
        => respectsPreferences(candidate, constraints.preferences)

\* Math.round of num/den for num >= 0, den > 0
RoundDiv(num, den) == (2 * num + den) \div (2 * den)

Max(a, b) == IF a > b THEN a ELSE b

Min(a, b) == IF a < b THEN a ELSE b

Abs(x) == IF x < 0 THEN 0 - x ELSE x

\* the portion of calculateOptimalPortion from the macros of 100 g
portionForCalories(baseMacros, targetMacros) ==
  IF ~baseMacros.ok THEN Throw(baseMacros.err)
  ELSE IF baseMacros.val.caloriesKcal = 0 THEN Ok(Portion(1000, "g"))
  ELSE Ok(Portion(Max(10, RoundDiv(1000 * targetMacros.caloriesKcal,
                                   baseMacros.val.caloriesKcal)), "g"))

calculateOptimalPortion(food, targetMacros) ==
  portionForCalories(computeItemMacros(SubstitutionMacroEngine, food.id,
                                       Portion(1000, "g"), "notfound"),
                     targetMacros)

calculatePercentDifference(original, candidate) ==
  IF original = 0 THEN (IF candidate = 0 THEN 0 ELSE 10000)
  ELSE (Abs(candidate - original) * 10000) \div original

\* the distance record from the four main percent differences
macroDistanceOf(original, candidate, caloriesPercent, proteinPercent, carbsPercent, fatPercent) ==
  [caloriesPercent |-> caloriesPercent,
   proteinPercent |-> proteinPercent,
   carbsPercent |-> carbsPercent,
   fatPercent |-> fatPercent,
   fiberPercent |-> IF Truthy(original.fiberG) /\ Truthy(candidate.fiberG)
                    THEN calculatePercentDifference(original.fiberG, candidate.fiberG)
                    ELSE NoValue,
   sugarPercent |-> IF Truthy(original.sugarG) /\ Truthy(candidate.sugarG)
                    THEN calculatePercentDifference(original.sugarG, candidate.sugarG)
                    ELSE NoValue,
   overallScore |-> (caloriesPercent + proteinPercent + carbsPercent + fatPercent) \div 4]

calculateMacroDistance(original, candidate) ==
  macroDistanceOf(original, candidate,
                  calculatePercentDifference(original.caloriesKcal, candidate.caloriesKcal),
                  calculatePercentDifference(original.proteinG, candidate.proteinG),
                  calculatePercentDifference(original.carbsG, candidate.carbsG),
                  calculatePercentDifference(original.fatG, candidate.fatG))

\* the gate applied to the calories alone
withinTolerance_caloriesOnly(macroDistance, constraints) ==
  ~(macroDistance.caloriesPercent > constraints.macroTolerancePercent)

\* the tolerance gate of evaluateCandidates
withinTolerance(macroDistance, constraints) ==
  ~(macroDistance.overallScore > constraints.macroTolerancePercent)

calculatePreferenceScore(food, preferences) == 8000

getSourceQualityScore(source) ==
  CASE source = "usda_fdc" -> 95
    [] source = "local" -> 90
    [] source = "open_food_facts" -> 75
    [] source = "user_contributed" -> 60
    [] OTHER -> 70

calculateAvailabilityScore(food) ==
  LET confidence == IF Truthy(food.metadata.confidence) THEN food.metadata.confidence ELSE 70
      sourceQuality == getSourceQualityScore(food.metadata.source)
  IN Min(10000, ((confidence + sourceQuality) * 100) \div 2)

basicFoods ==
  <<<<"r","i","c","e">>, <<"b","e","a","n","s">>, <<"p","a","s","t","a">>,
    <<"b","r","e","a","d">>, <<"o","a","t","s">>, <<"p","o","t","a","t","o","e","s">>>>

calculateCostScore(food) ==
  IF \E i \in 1..Len(basicFoods) : includes(toLowerCase(food.name), basicFoods[i])
  THEN 8500 ELSE 7000

\* the score record from its four parts
scoreOf(macroScore, preferenceScore, availabilityScore, costScore, macroDistance) ==
  [macroScore |-> macroScore,
   preferenceScore |-> preferenceScore,
   availabilityScore |-> availabilityScore,
   costScore |-> costScore,
   totalScore |-> macroScore * 5 + preferenceScore * 2 + availabilityScore * 2 + costScore,
   macroDistance |-> macroDistance]

calculateScore(candidateFood, macroDistance, preferences) ==
  scoreOf(Max(0, 10000 - macroDistance.overallScore * 2),
          calculatePreferenceScore(candidateFood, preferences),
          calculateAvailabilityScore(candidateFood),
          calculateCostScore(candidateFood),
          macroDistance)

generateSubstitutionReason(original, candidate, macroDistance) ==
  [candidate |-> candidate.name,
   original |-> original.name,
   distance |-> IF macroDistance.overallScore < 200 THEN "very similar macros"
                ELSE IF macroDistance.overallScore < 500 THEN "similar macros"
                ELSE "acceptable macro profile",
   source |-> IF candidate.metadata.source = "usda_fdc" THEN " (USDA verified)"
              ELSE IF candidate.metadata.source = "local" THEN " (curated database)"
              ELSE "",
   insights |-> <<>>]

\* the skip comparing the records instead of their ids
isOriginalFood_sameRecord(candidate, originalFood) == candidate = originalFood

\* the skip of the original food in evaluateCandidates
isOriginalFood(candidate, originalFood) == candidate.id = originalFood.id

\* the end of the loop body: the tolerance gate, then the candidate
candidateWithDistance(originalFood, candidate, constraints, portion, macros, macroDistance) ==
  IF ~withinTolerance(macroDistance, constraints) THEN <<>>
  ELSE <<[food |-> candidate,
          suggestedPortion |-> portion,
          score |-> calculateScore(candidate, macroDistance, constraints.preferences),
          macros |-> macros,
          reason |-> generateSubstitutionReason(originalFood, candidate, macroDistance)]>>

\* the loop body once the candidate's macros are computed (a throw skips it)
candidateWithMacros(originalFood, originalMacros, candidate, constraints, portion, candidateMacros) ==
  IF ~candidateMacros.ok THEN <<>>
  ELSE candidateWithDistance(originalFood, candidate, constraints, portion,
                             candidateMacros.val,
                             calculateMacroDistance(originalMacros, candidateMacros.val))

\* the loop body once the portion is chosen (a throw skips the candidate)
candidateAtPortion(originalFood, originalMacros, candidate, constraints, suggestedPortion) ==
  IF ~suggestedPortion.ok THEN <<>>
  ELSE candidateWithMacros(originalFood, originalMacros, candidate, constraints,
                           suggestedPortion.val,
                           computeItemMacros(SubstitutionMacroEngine, candidate.id,
                                             suggestedPortion.val, "notfound"))

\* one iteration of the loop of evaluateCandidates: <<candidate>> or <<>>
evaluateCandidate(originalFood, originalMacros, candidate, constraints) ==
  IF isOriginalFood(candidate, originalFood) THEN <<>>
  ELSE IF ~passesBasicFilters(candidate, constraints) THEN <<>>
  ELSE candidateAtPortion(originalFood, originalMacros, candidate, constraints,
                          calculateOptimalPortion(candidate, originalMacros))

RECURSIVE evaluateCandidates_stopAtThrow(_, _, _, _)
\* a loop without the try/catch in its body: the first candidate whose
\* evaluation throws ends it
evaluateCandidates_stopAtThrow(originalFood, originalMacros, candidates, constraints) ==
  IF candidates = <<>> THEN <<>>
  ELSE IF /\ candidates[1].id # originalFood.id
          /\ ~computeItemMacros([index |-> catalog, hybrid |-> FALSE, pieceMap |-> <<>>],
                                candidates[1].id, [quantity |-> 1000, unit |-> "g"],
                                "notfound").ok
       THEN <<>>
       ELSE evaluateCandidate(originalFood, originalMacros, candidates[1], constraints)
            \o evaluateCandidates_stopAtThrow(originalFood, originalMacros,
                                              Tail(candidates), constraints)

RECURSIVE evaluateCandidates(_, _, _, _)
\* SubstitutionEngine.evaluateCandidates
evaluateCandidates(originalFood, originalMacros, candidates, constraints) ==
  IF candidates = <<>> THEN <<>>
  ELSE evaluateCandidates(originalFood, originalMacros,
                          SubSeq(candidates, 1, Len(candidates) - 1), constraints)
       \o evaluateCandidate(originalFood, originalMacros,
                            candidates[Len(candidates)], constraints)

\* ---- LLM re-ranking ----
\* an entry of the rankings array: null, or an object with originalIndex
\* (NoValue when the field is missing) and reasoning ("" when missing)
Ranking(originalIndex, reasoning) ==
  [isNull |-> FALSE, originalIndex |-> originalIndex, reasoning |-> reasoning]

NullRanking == [isNull |-> TRUE, originalIndex |-> NoValue, reasoning |-> ""]

RankingEntries ==
  {NullRanking, Ranking(NoValue, ""), Ranking(0, "why"), Ranking(1, "")}

\* what callLLMForRanking yields: kind "throws" (the call fails), "null", or
\* "object" with rankings "missing", "notArray" or an "array" of entries
LLMResponse(kind, rankingsKind, rankings) ==
  [kind |-> kind, rankingsKind |-> rankingsKind, rankings |-> rankings]

\* the body of the forEach callback of applyLLMRanking on candidates cs
applyRanking(cs, ranking, index, rankingsLength) ==
  LET candidateIndex == ranking.originalIndex
  IN IF candidateIndex >= 0 /\ candidateIndex < Len(cs)
     THEN LET boost == (rankingsLength - index) * 5000
              c == cs[candidateIndex + 1]
          IN [cs EXCEPT ![candidateIndex + 1] =
                [c EXCEPT !.score.totalScore = c.score.totalScore + boost,
                          !.reason.insights =
                             IF ranking.reasoning # ""
                             THEN Append(c.reason.insights, ranking.reasoning)
                             ELSE c.reason.insights]]
     ELSE cs

\* forEach from entry number index (0-based); reading a field of null throws,
\* which ends the loop with the candidates as they are by then
RECURSIVE applyRankingsFrom(_, _, _)
applyRankingsFrom(cs, rankings, index) ==
  IF index >= Len(rankings) THEN cs
  ELSE IF rankings[index + 1].isNull THEN cs
  ELSE applyRankingsFrom(applyRanking(cs, rankings[index + 1], index, Len(rankings)),
                         rankings, index + 1)

applyLLMRanking(candidates, llmResponse) ==
  IF llmResponse.rankingsKind # "array" THEN candidates
  ELSE applyRankingsFrom(candidates, llmResponse.rankings, 0)

enhanceWithLLMRanking(candidates, llmResponse) ==
  IF llmResponse.kind # "object" THEN candidates
  ELSE applyLLMRanking(candidates, llmResponse)

\* ---- ranking and limiting ----
RECURSIVE insertByScore(_, _)
\* stable insertion of c from the back: c goes after every element it does not beat
insertByScore(sorted, c) ==
  IF sorted = <<>> THEN <<c>>
  ELSE LET last == sorted[Len(sorted)]
       IN IF last.score.totalScore >= c.score.totalScore
          THEN Append(sorted, c)
          ELSE Append(insertByScore(SubSeq(sorted, 1, Len(sorted) - 1), c), last)

RECURSIVE sortByTotalScore(_)
\* candidates.sort((a, b) => b.score.totalScore - a.score.totalScore)
sortByTotalScore(cs) ==
  IF cs = <<>> THEN <<>>
  ELSE insertByScore(sortByTotalScore(SubSeq(cs, 1, Len(cs) - 1)), cs[Len(cs)])

\* a slice keeping one candidate too many
sliceTo_offByOne(cs, n) == SubSeq(cs, 1, Min(Len(cs), Max(n, 0) + 1))

\* candidates.slice(0, n)
sliceTo(cs, n) == SubSeq(cs, 1, Min(Len(cs), Max(n, 0)))

\* the optional re-ranking, then the sort and the slice
rankAndLimit(evaluated, effectiveConstraints, enableLLMRanking, llmResponse) ==
  sliceTo(sortByTotalScore(IF enableLLMRanking /\ Len(evaluated) > 0
                           THEN enhanceWithLLMRanking(evaluated, llmResponse)
                           ELSE evaluated),
          effectiveConstraints.maxSuggestions)

\* the SubstitutionResult
substitutionResult(originalFood, originalMacros, limitedCandidates, effectiveConstraints) ==
  [status |-> "returned",
   originalFood |-> <<originalFood>>,
   originalMacros |-> originalMacros,
   candidates |-> limitedCandidates,
   hasViableSubstitutions |-> Len(limitedCandidates) > 0,
   totalCandidatesEvaluated |-> Len(getAllFoods),
   constraintsApplied |-> effectiveConstraints]

\* findSubstitutions once the original macros are computed (a throw leaves)
substitutionsWithMacros(originalFood, originalFoodId, originalMacros, effectiveConstraints, enableLLMRanking, llmResponse) ==
  IF ~originalMacros.ok
  THEN [status |-> "thrown", err |-> <<originalMacros.err, originalFoodId>>]
  ELSE substitutionResult(originalFood, originalMacros.val,
                          rankAndLimit(evaluateCandidates(originalFood, originalMacros.val,
                                                          getAllFoods, effectiveConstraints),
                                       effectiveConstraints, enableLLMRanking, llmResponse),
                          effectiveConstraints)

\* findSubstitutions once the original food is resolved
substitutionsFor(originalFood, originalFoodId, originalPortion, effectiveConstraints, enableLLMRanking, llmResponse) ==
  substitutionsWithMacros(originalFood, originalFoodId,
                          computeItemMacros(SubstitutionMacroEngine, originalFoodId,
                                            originalPortion, "notfound"),
                          effectiveConstraints, enableLLMRanking, llmResponse)

\* the not-found check answering an unknown food with an empty result
substitutionsOfFound_emptyResult(found, originalFoodId, originalPortion, constraints, enableLLMRanking, llmResponse) ==
  IF found = <<>>
  THEN [status |-> "returned",
        originalFood |-> <<>>,
        originalMacros |-> ZeroMacros,
        candidates |-> <<>>,
        hasViableSubstitutions |-> FALSE,
        totalCandidatesEvaluated |-> 0,
        constraintsApplied |-> EffectiveConstraints(constraints)]
  ELSE substitutionsFor(found[1], originalFoodId, originalPortion,
                        EffectiveConstraints(constraints), enableLLMRanking, llmResponse)

\* the not-found check of findSubstitutions on the looked-up food
substitutionsOfFound(found, originalFoodId, originalPortion, constraints, enableLLMRanking, llmResponse) ==
  IF found = <<>>
  THEN [status |-> "thrown", err |-> <<"Food not found", originalFoodId>>]
  ELSE substitutionsFor(found[1], originalFoodId, originalPortion,
                        EffectiveConstraints(constraints), enableLLMRanking, llmResponse)

\* SubstitutionEngine.findSubstitutions
findSubstitutions(originalFoodId, originalPortion, constraints, enableLLMRanking, llmResponse) ==
  substitutionsOfFound(getFood(SubstitutionMacroEngine, originalFoodId, "notfound").food,
                       originalFoodId, originalPortion, constraints,
                       enableLLMRanking, llmResponse)

\* ------------------------------------------------------------------------
\* USDA client (usdaFdcClient.ts)
\* ------------------------------------------------------------------------
\* the name of a food whose upstream record has no description (undefined)
UndefinedName == <<"undefined">>

\* an FdcFoodDetail with its nutrients as the reduce of convertToFoodItem
\* extracts them; NoValue marks a nutrient not present
FdcFoodDetail(fdcId, description, calories, protein, carbs, fat, fiber, sugar) ==
  [fdcId |-> fdcId, description |-> description, calories |-> calories,
   protein |-> protein, carbs |-> carbs, fat |-> fat, fiber |-> fiber, sugar |-> sugar]

\* UsdaFdcClient.convertToFoodItem
usdaConvertToFoodItem(fdcFood) ==
  Food("usda_" \o fdcFood.fdcId, fdcFood.description, Portion(1000, "g"),
       Macros(FirstTruthy(fdcFood.calories, NoValue), FirstTruthy(fdcFood.protein, NoValue),
              FirstTruthy(fdcFood.carbs, NoValue), FirstTruthy(fdcFood.fat, NoValue),
              fdcFood.fiber, fdcFood.sugar),
       NoValue, "usda_fdc", 95)

\* ------------------------------------------------------------------------
\* Food resolution service, search and barcode (hybridFoodService.ts)
\* ------------------------------------------------------------------------
CacheExpiryMs == 300000

CacheSizeThreshold == 100

DefaultMaxResults == 50

\* FoodServiceOptions as passed: <<>> marks a flag not supplied, NoValue a
\* number not supplied; usdaApiKey is TRUE when a non-empty key is given
FoodServiceOptions(enableOpenFoodFacts, enableLocalDatabase, enableUsdaFdc, usdaApiKey, maxResults, cacheResults) ==
  [enableOpenFoodFacts |-> enableOpenFoodFacts,
   enableLocalDatabase |-> enableLocalDatabase,
   enableUsdaFdc |-> enableUsdaFdc,
   usdaApiKey |-> usdaApiKey,
   maxResults |-> maxResults,
   cacheResults |-> cacheResults]

OrDefault(flag, default) == IF flag = <<>> THEN default ELSE flag[1]

\* the constructor: the client exists when USDA is enabled with a key; the
\* options are the defaults overridden by what was passed
HybridFoodService(options) ==
  [usdaFdcClient |-> OrDefault(options.enableUsdaFdc, FALSE) /\ options.usdaApiKey,
   options |->
     [enableOpenFoodFacts |-> OrDefault(options.enableOpenFoodFacts, TRUE),
      enableLocalDatabase |-> OrDefault(options.enableLocalDatabase, TRUE),
      enableUsdaFdc |-> OrDefault(options.enableUsdaFdc, FALSE),
      maxResults |-> IF options.maxResults = NoValue THEN DefaultMaxResults
                     ELSE options.maxResults,
      cacheResults |-> OrDefault(options.cacheResults, TRUE)]]

\* searchFoods of the local database: the foods whose name contains the query
searchLocalFoods(query) ==
  SelectSeq(LocalFoods(catalog), LAMBDA f : includes(toLowerCase(f.name), toLowerCase(query)))

\* array.slice(0, n)
sliceFoods(foods, n) ==
  IF n <= 0 THEN <<>> ELSE IF n < Len(foods) THEN SubSeq(foods, 1, n) ELSE foods

\* ---- cache ----
\* `search:${query}:${page}`
cacheKey(query, page) == <<query, page>>

\* the cache is a set of [key, data, timestamp], one entry per key
cacheDelete(entries, key) == {e \in entries : e.key # key}

cacheHas(entries, key) == \E e \in entries : e.key = key

cacheGet(entries, key) == CHOOSE e \in entries : e.key = key

\* an entry served up to and including the expiry age
cacheHit_inclusive(entries, key, time) ==
  cacheHas(entries, key) /\ time - cacheGet(entries, key).timestamp <= CacheExpiryMs

\* getFromCache returns the entry
cacheHit(entries, key, time) ==
  cacheHas(entries, key) /\ time - cacheGet(entries, key).timestamp < CacheExpiryMs

\* getFromCache: hit is TRUE with the entry's data, or the key is deleted
getFromCache(entries, key, time) ==
  IF cacheHit(entries, key, time)
  THEN [hit |-> TRUE, data |-> cacheGet(entries, key).data, cache |-> entries]
  ELSE [hit |-> FALSE, data |-> <<>>, cache |-> cacheDelete(entries, key)]

\* the clean-up of setCache once the entry is stored
cleanUp(entries, time) ==
  IF Cardinality(entries) > CacheSizeThreshold
  THEN {e \in entries : ~(time - e.timestamp > CacheExpiryMs)}
  ELSE entries

setCache(entries, key, data, time) ==
  cleanUp(cacheDelete(entries, key) \cup {[key |-> key, data |-> data, timestamp |-> time]},
          time)

\* ---- removeDuplicates ----
Digits == {"0","1","2","3","4","5","6","7","8","9"}

\* name.toLowerCase().replace(/[^a-z0-9]/g, '')
nameKey(name) ==
  SelectSeq(toLowerCase(name),
            LAMBDA c : c \in Digits \/ (\E i \in 1..26 : LowerChars[i] = c))

priorityOrder == <<"open_food_facts", "usda_fdc", "local", "user_contributed">>

\* priorityOrder.indexOf(food.metadata?.source || 'local')
sourcePriority(food) ==
  IF food.metadata.source = "none" THEN 2
  ELSE IF \E i \in 1..4 : priorityOrder[i] = food.metadata.source
       THEN (CHOOSE i \in 1..4 : priorityOrder[i] = food.metadata.source) - 1
       ELSE 0 - 1

RECURSIVE insertByPriority(_, _)
\* stable insertion of food from the back
insertByPriority(sorted, food) ==
  IF sorted = <<>> THEN <<food>>
  ELSE IF sourcePriority(sorted[Len(sorted)]) <= sourcePriority(food)
       THEN Append(sorted, food)
       ELSE Append(insertByPriority(SubSeq(sorted, 1, Len(sorted) - 1), food),
                   sorted[Len(sorted)])

RECURSIVE sortByPriority(_)
sortByPriority(foods) ==
  IF foods = <<>> THEN <<>>
  ELSE insertByPriority(sortByPriority(SubSeq(foods, 1, Len(foods) - 1)), foods[Len(foods)])

RECURSIVE keepFirstPerKey(_)
\* the loop over the sorted foods: a food is kept when no earlier one has its key
keepFirstPerKey(foods) ==
  IF foods = <<>> THEN <<>>
  ELSE IF \E i \in 1..(Len(foods) - 1) : nameKey(foods[i].name) = nameKey(foods[Len(foods)].name)
       THEN keepFirstPerKey(SubSeq(foods, 1, Len(foods) - 1))
       ELSE Append(keepFirstPerKey(SubSeq(foods, 1, Len(foods) - 1)), foods[Len(foods)])

\* removeDuplicates: reading toLowerCase of an undefined name throws
removeDuplicates(foods) ==
  IF \E i \in 1..Len(foods) : foods[i].name = UndefinedName
  THEN Throw("Cannot read properties of undefined")
  ELSE Ok(keepFirstPerKey(sortByPriority(foods)))

\* ---- searchFoods ----
\* what searchFoods yields: status "returned", "thrown" or "pending" (an await
\* that has not come back); path tells the return path taken; requests lists
\* the external sources queried and failed those that threw
SearchResult(status, path, foods, totalCount, source, hasMore, requests, failed) ==
  [status |-> status, path |-> path, foods |-> foods, totalCount |-> totalCount,
   source |-> source, hasMore |-> hasMore, requests |-> requests, failed |-> failed]

\* OpenFoodFactsClient.searchFoods on a response that arrived
offSearchFoods(off) == SelectSeq(off.products, isValidProduct)

convertAll(products) == [i \in 1..Len(products) |-> convertToFoodItem(products[i])]

\* results and source before any source is tried
noResults == [results |-> <<>>, source |-> "local", requests |-> <<>>, failed |-> {}]

\* step 1 once the converted results are there
withOpenFoodFacts(convertedResults) ==
  [results |-> convertedResults,
   source |-> IF Len(convertedResults) > 0 THEN "open_food_facts" ELSE "local",
   requests |-> <<"open_food_facts">>,
   failed |-> {}]

\* step 1: Open Food Facts, a failure is caught
afterOpenFoodFacts(svc, off) ==
  IF ~svc.options.enableOpenFoodFacts THEN noResults
  ELSE IF off.kind = "ok" THEN withOpenFoodFacts(convertAll(offSearchFoods(off)))
  ELSE [results |-> <<>>, source |-> "local", requests |-> <<"open_food_facts">>,
        failed |-> {"open_food_facts"}]

\* the details of the first five search results; a failing detail is dropped
usdaDetails(usda) == SelectSeq(sliceFoods(usda.foods, 5), LAMBDA r : r.ok)

usdaConvertAll(rs) == [i \in 1..Len(rs) |-> usdaConvertToFoodItem(rs[i].detail)]

\* step 2 once the valid results are there
withUsda(acc, validResults) ==
  [results |-> acc.results \o validResults,
   source |-> IF Len(validResults) > 0
              THEN (IF acc.source = "open_food_facts" THEN "hybrid" ELSE "usda_fdc")
              ELSE acc.source,
   requests |-> Append(acc.requests, "usda_fdc"),
   failed |-> acc.failed]

\* step 2: USDA when enabled and results are still missing, a failure is caught
afterUsda(svc, acc, usda) ==
  IF svc.options.enableUsdaFdc /\ svc.usdaFdcClient
       /\ Len(acc.results) < svc.options.maxResults
  THEN IF usda.kind = "ok" THEN withUsda(acc, usdaConvertAll(usdaDetails(usda)))
       ELSE [results |-> acc.results, source |-> acc.source,
             requests |-> Append(acc.requests, "usda_fdc"),
             failed |-> acc.failed \cup {"usda_fdc"}]
  ELSE acc

\* { ...food, metadata: { source: 'local', confidence: 1.0 } }
localWithMetadata(foods) ==
  [i \in 1..Len(foods) |-> [foods[i] EXCEPT !.metadata = [source |-> "local", confidence |-> 100]]]

\* step 3 once the local slice is there
withLocal(acc, localSlice) ==
  [results |-> acc.results \o localSlice,
   source |-> IF Len(acc.results) + Len(localSlice) > 0
              THEN (IF acc.source = "open_food_facts" THEN "hybrid" ELSE "local")
              ELSE acc.source,
   requests |-> acc.requests,
   failed |-> acc.failed]

\* step 3 left out: the local database is never asked
afterLocal_skipped(svc, acc, query) == acc

\* step 3: the local database when enabled and results are still missing
afterLocal(svc, acc, query) ==
  IF svc.options.enableLocalDatabase /\ Len(acc.results) < svc.options.maxResults
  THEN withLocal(acc, localWithMetadata(sliceFoods(searchLocalFoods(query),
                                                   svc.options.maxResults - Len(acc.results))))
  ELSE acc

\* steps 1 to 3
gatherResults(svc, query, off, usda) ==
  afterLocal(svc, afterUsda(svc, afterOpenFoodFacts(svc, off), usda), query)

\* the catch of searchFoods: the local results as they are, or a throw
fallbackResult(svc, localResults, acc) ==
  IF svc.options.enableLocalDatabase
  THEN SearchResult("returned", "fallback", sliceFoods(localResults, svc.options.maxResults),
                    Len(localResults), "local", Len(localResults) > svc.options.maxResults,
                    acc.requests, acc.failed)
  ELSE SearchResult("thrown", "fallback", <<>>, 0, "local", FALSE, acc.requests, acc.failed)

\* the end of the try block: store and return, or the catch
searchOutcome(svc, entries, time, key, query, acc, uniqueResults) ==
  IF uniqueResults.ok
  THEN [result |-> SearchResult("returned", "fresh",
                                sliceFoods(uniqueResults.val, svc.options.maxResults),
                                Len(uniqueResults.val), acc.source,
                                Len(uniqueResults.val) > svc.options.maxResults,
                                acc.requests, acc.failed),
        cache |-> IF svc.options.cacheResults
                  THEN setCache(entries, key, uniqueResults.val, time) ELSE entries]
  ELSE [result |-> fallbackResult(svc, searchLocalFoods(query), acc), cache |-> entries]

searchGathered(svc, entries, time, key, query, acc) ==
  searchOutcome(svc, entries, time, key, query, acc, removeDuplicates(acc.results))

\* searchFoods past the cache: an Open Food Facts request that never comes
\* back leaves the call pending
searchSources(svc, entries, time, query, page, off, usda) ==
  IF svc.options.enableOpenFoodFacts /\ off.kind = "hangs"
  THEN [result |-> SearchResult("pending", "fresh", <<>>, 0, "local", FALSE,
                                <<"open_food_facts">>, {}),
        cache |-> entries]
  ELSE searchGathered(svc, entries, time, cacheKey(query, page), query,
                      gatherResults(svc, query, off, usda))

\* searchFoods once the cache was looked at
searchCached(svc, cached, time, query, page, off, usda) ==
  IF cached.hit
  THEN [result |-> SearchResult("returned", "cache", cached.data, Len(cached.data),
                                "hybrid", FALSE, <<>>, {}),
        cache |-> cached.cache]
  ELSE searchSources(svc, cached.cache, time, query, page, off, usda)

\* HybridFoodService.searchFoods: [result, cache]
searchFoods(svc, entries, time, query, page, off, usda) ==
  IF svc.options.cacheResults
  THEN searchCached(svc, getFromCache(entries, cacheKey(query, page), time), time,
                    query, page, off, usda)
  ELSE searchSources(svc, entries, time, query, page, off, usda)

\* ---- getFoodByBarcode ----
\* OpenFoodFactsClient.getFoodByBarcode on what the endpoint answered
offGetFoodByBarcode(resp) ==
  IF resp.kind = "network" THEN Throw("Failed to lookup barcode: network")
  ELSE IF resp.kind = "http404" THEN Ok(<<>>)
  ELSE IF resp.kind = "http500" THEN Throw("Failed to lookup barcode: HTTP 500")
  ELSE IF resp.kind = "status0" THEN Ok(<<>>)
  ELSE IF resp.kind = "noProduct" THEN Throw("Failed to lookup barcode: Invalid response format")
  ELSE IF isValidProduct(resp.product) THEN Ok(<<resp.product>>) ELSE Ok(<<>>)

\* the try/catch of getFoodByBarcode around the client's answer
barcodeFood(product) ==
  IF product.ok /\ product.val # <<>>
  THEN [status |-> "returned", food |-> <<convertToFoodItem(product.val[1])>>]
  ELSE [status |-> "returned", food |-> <<>>]

\* HybridFoodService.getFoodByBarcode: food is <<f>> or <<>> (null)
getFoodByBarcode(resp) == barcodeFood(offGetFoodByBarcode(resp))

\* ------------------------------------------------------------------------
\* Inputs
\* ------------------------------------------------------------------------
ItemInput(foodId, portion) == [foodId |-> foodId, portion |-> portion]

ItemInputs ==
  {ItemInput("chicken", Portion(1000, "g")),
   ItemInput("chicken", Portion(10, "cup")),
   ItemInput("chicken", Portion(1000, "invalid")),
   ItemInput("egg_whole", Portion(20, "piece")),
   ItemInput("turkey", Portion(10, "piece")),
   ItemInput("nope", Portion(-10, "invalid")),
   ItemInput("off_1", Portion(5, "kg"))}

RECURSIVE SeqsUpTo(_, _)
\* the sequences over S of length at most n
SeqsUpTo(S, n) ==
  IF n = 0 THEN {<<>>}
  ELSE LET shorter == SeqsUpTo(S, n - 1)
       IN shorter \cup {Append(s, x) : s \in shorter, x \in S}

ItemLists == SeqsUpTo(ItemInputs, MaxItems)

\* the meals of a day
MealChoices ==
  {<<>>,
   <<ItemInput("chicken", Portion(1000, "g"))>>,
   <<ItemInput("turkey", Portion(500, "g")), ItemInput("nope", Portion(1000, "g"))>>,
   <<ItemInput("egg_whole", Portion(20, "piece")), ItemInput("off_1", Portion(5, "kg"))>>,
   <<ItemInput("chicken", Portion(10, "piece"))>>}

MealLists == SeqsUpTo(MealChoices, MaxMeals)

\* substitution requests
RequestFoodIds == {"chicken", "nope"}

RequestPortions == {Portion(1000, "g"), Portion(10, "piece")}

Tolerances == {NoValue, 200, 800}

SuggestionLimits == {NoValue, 0, 1}

ConfidenceFloors == {NoValue, 95}

PreferenceChoices ==
  {NoPreferences,
   Preferences(<<<<"n","u","t","s">>, <<"d","a","i","r","y">>, <<"e","g","g","s">>>>, <<>>),
   Preferences(<<<<"E","g","g">>>>, <<<<"T","O","F","U">>>>)}

LLMResponses ==
  {LLMResponse("throws", "missing", <<>>), LLMResponse("null", "missing", <<>>),
   LLMResponse("object", "missing", <<>>), LLMResponse("object", "notArray", <<>>)}
    \cup {LLMResponse("object", "array", r) : r \in SeqsUpTo(RankingEntries, MaxRankings)}

\* llmOptions together with what the ranking collaborator will answer
LLMChoices ==
  {[enableLLMRanking |-> FALSE, response |-> LLMResponse("throws", "missing", <<>>)]}
    \cup {[enableLLMRanking |-> TRUE, response |-> r] : r \in LLMResponses}

\* ---- a candidate that cannot be evaluated ----
\* a local record measured by volume that carries no density: its macros
\* cannot be computed for any portion
MilkFood ==
  Food("milk_skim", <<"M","i","l","k">>, Portion(1000, "ml"),
       Macros(16500, 3100, 0, 360, NoValue, NoValue), NoValue, "local", 100)

\* a food set with that record between foods that can be evaluated
SkippingCatalog == <<ChickenFood, MilkFood, TurkeyFood, PeanutFood>>

\* ---- doubling a portion ----
\* portions k whose macros, and those of 2k, are whole hundredths for the
\* foods of the universe, so that the fixed point holds them exactly
DoubledFoodIds == {"chicken", "egg_whole", "tofu_rice", "off_1", "nope"}

DoubledPortions ==
  {Portion(1000, "g"), Portion(2500, "g"), Portion(10, "kg"), Portion(1000, "ml"),
   Portion(10, "cup"), Portion(10, "piece"), Portion(30, "piece"), Portion(0, "g")}

\* ---- unit conversion ----
\* unit strings as they arrive in a portion: the units of the Unit type,
\* other spellings, and names of inherited object keys
UnitStrings ==
  {"g", "kg", "mg", "lb", "oz", "ml", "l", "tsp", "tbsp", "cup", "piece",
   "invalid", "", "G", "grams", "toString", "constructor"}

\* quantities, in tenths
UnitQuantities == {0, 10, 25, 1000}

\* densities in thousandths of g/ml, NoValue when the food has none
Densities == {NoValue, 1000, 1030}

\* ---- the resolution service ----
\* a second local record whose name differs from "Egg, whole" in case and
\* punctuation only
EggPlainFood ==
  Food("egg_plain", <<"E","g","g"," ","W","h","o","l","e">>, Portion(1000, "g"),
       Macros(14300, 1260, 70, 950, NoValue, NoValue), NoValue, "none", NoValue)

\* the local database the service is explored on
ServiceCatalog == <<ChickenFood, EggFood, EggPlainFood, TofuFood>>

EggProduct ==
  Product("2", <<"E","G","G"," ","w","h","o","l","e">>, TRUE,
          Nutriments(14300, NoValue, 1260, 70, 950, NoValue, NoValue))

\* a product without calories, which isValidProduct rejects
\* ---- requests to the external sources ----
UsdaIds == {"usda_7"}

\* the external requests of getFoodById: none for a local food; an 'off_' id
\* goes to Open Food Facts whatever the options; a 'usda_' id goes to USDA
\* when that source is enabled and has its client
getFoodByIdRequests(svc, foods, id) ==
  IF getLocalFoodById(foods, id) # <<>> THEN <<>>
  ELSE IF id \in OffIds THEN <<"open_food_facts">>
  ELSE IF id \in UsdaIds /\ svc.options.enableUsdaFdc /\ svc.usdaFdcClient
       THEN <<"usda_fdc">>
       ELSE <<>>

\* the external requests of getFoodByBarcode: the client is always asked
getFoodByBarcodeRequests(svc) == <<"open_food_facts">>

\* ---- testConnectivity ----
\* a testConnection that threw counts as FALSE
connected(answer) == answer = "up"

\* HybridFoodService.testConnectivity: offUp and usdaUp are what the
\* testConnection of each client does ("up", "down", "throws")
testConnectivity(svc, foods, offUp, usdaUp) ==
  [localDatabase |-> svc.options.enableLocalDatabase /\ Len(foods) > 0,
   openFoodFacts |-> svc.options.enableOpenFoodFacts /\ connected(offUp),
   usdaFdc |-> svc.options.enableUsdaFdc /\ svc.usdaFdcClient /\ connected(usdaUp),
   overall |-> \/ svc.options.enableLocalDatabase /\ Len(foods) > 0
               \/ svc.options.enableOpenFoodFacts /\ connected(offUp)
               \/ svc.options.enableUsdaFdc /\ svc.usdaFdcClient /\ connected(usdaUp),
   requests |-> (IF svc.options.enableOpenFoodFacts THEN <<"open_food_facts">> ELSE <<>>)
                \o (IF svc.options.enableUsdaFdc /\ svc.usdaFdcClient
                    THEN <<"usda_fdc">> ELSE <<>>)]

ConnectionAnswers == {"up", "down", "throws"}

InvalidProduct ==
  Product("3", <<"E","g","g"," ","b","o","x">>, TRUE,
          Nutriments(NoValue, NoValue, 0, NoValue, NoValue, NoValue, NoValue))

OffSearch(kind, products) == [kind |-> kind, products |-> products]

\* what the Open Food Facts search endpoint does with a request
OffSearchOutcomes ==
  {OffSearch("throws", <<>>), OffSearch("hangs", <<>>), OffSearch("ok", <<>>),
   OffSearch("ok", <<EggProduct, InvalidProduct>>),
   OffSearch("ok", <<OatBarProduct, EggProduct>>)}

UsdaEggDetail ==
  FdcFoodDetail("7", <<"E","g","g",","," ","r","a","w">>, 14300, 1260, 70, 950, NoValue, 40)

\* a detail record that lacks its description
UsdaNamelessDetail ==
  FdcFoodDetail("8", UndefinedName, 14300, 1260, 70, 950, NoValue, NoValue)

UsdaSearch(kind, foods) == [kind |-> kind, foods |-> foods]

\* what the USDA endpoints do: the search, then one detail request per result
UsdaSearchOutcomes ==
  {UsdaSearch("throws", <<>>),
   UsdaSearch("ok", <<[ok |-> TRUE, detail |-> UsdaEggDetail]>>),
   UsdaSearch("ok", <<[ok |-> FALSE, detail |-> UsdaEggDetail],
                      [ok |-> TRUE, detail |-> UsdaNamelessDetail]>>)}

Queries == {<<"e","g","g">>}

Pages == {1, 2}

\* {}, Open Food Facts off, every source off, USDA with a key and one result
\* per search, USDA with a key in place of Open Food Facts
ServiceOptionChoices ==
  {FoodServiceOptions(<<>>, <<>>, <<>>, FALSE, NoValue, <<>>),
   FoodServiceOptions(<<FALSE>>, <<>>, <<>>, FALSE, NoValue, <<>>),
   FoodServiceOptions(<<FALSE>>, <<FALSE>>, <<FALSE>>, FALSE, NoValue, <<>>),
   FoodServiceOptions(<<>>, <<>>, <<TRUE>>, TRUE, 1, <<>>),
   FoodServiceOptions(<<FALSE>>, <<>>, <<TRUE>>, TRUE, NoValue, <<>>)}

BarcodeResponse(kind, product) == [kind |-> kind, product |-> product]

\* what the barcode endpoint answers
BarcodeResponses ==
  {BarcodeResponse("network", InvalidProduct), BarcodeResponse("http404", InvalidProduct),
   BarcodeResponse("http500", InvalidProduct), BarcodeResponse("status0", InvalidProduct),
   BarcodeResponse("noProduct", InvalidProduct), BarcodeResponse("product", InvalidProduct),
   BarcodeResponse("product", OatBarProduct)}

ServiceFoodIds == {"chicken", "off_1", "nope"}

\* the instants at which the service is observed, in ms
ClockValues == {0, 299999, 300000}

\* the number of pages a paginating client asks for
MaxKeys == 102

\* ------------------------------------------------------------------------
\* State machine
\* ------------------------------------------------------------------------
Idle == [op |-> "idle"]

\* the macro engine of the nutrition service: hybrid lookups, a piece map
TheEngine == Engine(foodIndex, TRUE, PIECE_MAP)

\* new HybridFoodService()
DefaultService == HybridFoodService(FoodServiceOptions(<<>>, <<>>, <<>>, FALSE, NoValue, <<>>))

Init ==
  /\ catalog \in Catalogs
  /\ foodIndex = IndexOf(LocalFoods(catalog))
  /\ lastCall = Idle
  /\ service = DefaultService
  /\ cache = {}
  /\ now = 0

\* the resolution service on its local database
InitService ==
  /\ catalog = ServiceCatalog
  /\ foodIndex = IndexOf(LocalFoods(catalog))
  /\ lastCall = Idle
  /\ service = DefaultService
  /\ cache = {}
  /\ now = 0

\* the engines on a food set with a record that cannot be evaluated
InitSkipping ==
  /\ catalog = SkippingCatalog
  /\ foodIndex = IndexOf(LocalFoods(catalog))
  /\ lastCall = Idle
  /\ service = DefaultService
  /\ cache = {}
  /\ now = 0

\* a service that only has its local database
InitLocalOnly ==
  /\ catalog = ServiceCatalog
  /\ foodIndex = IndexOf(LocalFoods(catalog))
  /\ lastCall = Idle
  /\ service = HybridFoodService(FoodServiceOptions(<<FALSE>>, <<>>, <<>>, FALSE, NoValue, <<>>))
  /\ cache = {}
  /\ now = 0

ComputeItemMacros ==
  /\ lastCall = Idle
  /\ \E item \in ItemInputs, ext \in ExtOutcomes :
       \E r \in {computeItemMacros(TheEngine, item.foodId, item.portion, ext)} :
          /\ lastCall' = [op |-> "computeItemMacros", foodId |-> item.foodId,
                          portion |-> item.portion, ext |-> ext,
                          ok |-> r.ok, val |-> IF r.ok THEN r.val ELSE r.err]
          /\ foodIndex' = r.index
  /\ UNCHANGED <<catalog, service, cache, now>>

ComputeMealMacros ==
  /\ lastCall = Idle
  /\ \E items \in ItemLists, ext \in ExtOutcomes :
       \E r \in {computeMealMacros(TheEngine, items, ext)} :
          /\ lastCall' = [op |-> "computeMealMacros", items |-> items, ext |-> ext,
                          ok |-> r.ok, val |-> IF r.ok THEN r.val ELSE r.err]
          /\ foodIndex' = r.index
  /\ UNCHANGED <<catalog, service, cache, now>>

ComputeDayMacros ==
  /\ lastCall = Idle
  /\ \E meals \in MealLists, ext \in ExtOutcomes :
       \E r \in {computeDayMacros(TheEngine, meals, ext)} :
          /\ lastCall' = [op |-> "computeDayMacros", meals |-> meals, ext |-> ext,
                          ok |-> r.ok, val |-> IF r.ok THEN r.val ELSE r.err]
          /\ foodIndex' = r.index
  /\ UNCHANGED <<catalog, service, cache, now>>

FindSubstitutions ==
  /\ lastCall = Idle
  /\ \E id \in RequestFoodIds, portion \in RequestPortions, tol \in Tolerances,
        maxS \in SuggestionLimits, minC \in ConfidenceFloors,
        prefs \in PreferenceChoices, llm \in LLMChoices :
       \E r \in {findSubstitutions(id, portion, Constraints(tol, maxS, minC, prefs),
                                   llm.enableLLMRanking, llm.response)} :
          lastCall' =
            IF r.status = "thrown"
            THEN [op |-> "findSubstitutions", foodId |-> id, portion |-> portion,
                  result |-> r]
            ELSE [op |-> "findSubstitutions", foodId |-> id, portion |-> portion,
                  constraints |-> Constraints(tol, maxS, minC, prefs), llm |-> llm,
                  result |-> r]
  /\ UNCHANGED <<catalog, foodIndex, service, cache, now>>

\* new HybridFoodService(options): a fresh service with an empty cache
Construct ==
  /\ lastCall = Idle
  /\ \E options \in ServiceOptionChoices :
       /\ service' = HybridFoodService(options)
       /\ cache' = {}
  /\ UNCHANGED <<catalog, foodIndex, lastCall, now>>

\* time passes (Date.now())
Tick ==
  /\ lastCall = Idle
  /\ \E t \in ClockValues : t > now /\ now' = t
  /\ UNCHANGED <<catalog, foodIndex, lastCall, service, cache>>

\* one call of searchFoods for the given queries and pages
SearchFoodsFor(queries, pages) ==
  /\ lastCall = Idle
  /\ \E query \in queries, page \in pages, off \in OffSearchOutcomes,
        usda \in UsdaSearchOutcomes :
       \E r \in {searchFoods(service, cache, now, query, page, off, usda)} :
          /\ lastCall' = [op |-> "searchFoods", query |-> query, page |-> page,
                          at |-> now, result |-> r.result]
          /\ cache' = r.cache
  /\ UNCHANGED <<catalog, foodIndex, service, now>>

SearchFoods == SearchFoodsFor(Queries, Pages)

\* a client paginating through one query: the next page each time
SearchNextPage ==
  /\ Cardinality(cache) < MaxKeys
  /\ SearchFoodsFor(Queries, {Cardinality(cache) + 1})

\* the second of two calls of searchFoods for the same (query, page), made on
\* the cache the first call left
searchFoodsAgain(first, query, page, off, usda) ==
  searchFoods(service, first.cache, now, query, page, off, usda)

\* searchFoods and, once it returned, searchFoods again for the same
\* (query, page) at the same time, the sources answering the second call as
\* off and usda tell
SearchFoodsTwice ==
  /\ lastCall = Idle
  /\ \E query \in Queries, page \in Pages, off1 \in OffSearchOutcomes,
        usda1 \in UsdaSearchOutcomes, off \in OffSearchOutcomes,
        usda \in UsdaSearchOutcomes :
       \E r1 \in {searchFoods(service, cache, now, query, page, off1, usda1)} :
          /\ r1.result.status # "pending"
          /\ \E r2 \in {searchFoodsAgain(r1, query, page, off, usda)} :
               /\ r2.result.status # "pending"
               /\ lastCall' = [op |-> "searchFoodsTwice", query |-> query, page |-> page,
                               at |-> now, off |-> off, usda |-> usda,
                               first |-> r1.result, second |-> r2.result]
               /\ cache' = r2.cache
  /\ UNCHANGED <<catalog, foodIndex, service, now>>

GetFoodByBarcode ==
  /\ lastCall = Idle
  /\ \E resp \in BarcodeResponses :
       lastCall' = [op |-> "getFoodByBarcode", response |-> resp.kind,
                    result |-> getFoodByBarcode(resp),
                    requests |-> getFoodByBarcodeRequests(service)]
  /\ UNCHANGED <<catalog, foodIndex, service, cache, now>>

\* HybridFoodService.getFoodById called directly
GetFoodById ==
  /\ lastCall = Idle
  /\ \E id \in ServiceFoodIds, ext \in ExtOutcomes :
       lastCall' = [op |-> "getFoodById", id |-> id, ext |-> ext,
                    result |-> HybridGetFoodById(catalog, id, ext),
                    requests |-> getFoodByIdRequests(service, catalog, id)]
  /\ UNCHANGED <<catalog, foodIndex, service, cache, now>>

TestConnectivity ==
  /\ lastCall = Idle
  /\ \E offUp \in ConnectionAnswers, usdaUp \in ConnectionAnswers :
       lastCall' = [op |-> "testConnectivity",
                    result |-> testConnectivity(service, LocalFoods(catalog), offUp, usdaUp)]
  /\ UNCHANGED <<catalog, foodIndex, service, cache, now>>

\* the second of two calls of computeItemMacros, for twice the quantity, made
\* on the index the first call left
computeItemMacrosAgain(first, foodId, portion, ext) ==
  computeItemMacros(Engine(first.index, TRUE, PIECE_MAP), foodId,
                    Portion(2 * portion.quantity, portion.unit), ext)

\* computeItemMacros for a portion and then for twice its quantity
ComputeItemMacrosTwice ==
  /\ lastCall = Idle
  /\ \E foodId \in DoubledFoodIds, portion \in DoubledPortions, ext \in ExtOutcomes :
       \E r1 \in {computeItemMacros(TheEngine, foodId, portion, ext)} :
          \E r2 \in {computeItemMacrosAgain(r1, foodId, portion, ext)} :
             /\ lastCall' = [op |-> "computeItemMacrosTwice", foodId |-> foodId,
                             portion |-> portion, ext |-> ext,
                             single |-> [ok |-> r1.ok, val |-> IF r1.ok THEN r1.val ELSE ZeroMacros],
                             double |-> [ok |-> r2.ok, val |-> IF r2.ok THEN r2.val ELSE ZeroMacros]]
             /\ foodIndex' = r2.index
  /\ UNCHANGED <<catalog, service, cache, now>>

\* computeItemMacros in a browser (hasWindow) or on the server, with what it
\* wrote to the console
ComputeItemMacrosInRuntime ==
  /\ lastCall = Idle
  /\ \E item \in ItemInputs, ext \in ExtOutcomes, hasWindow \in BOOLEAN :
       \E got \in {getFood(TheEngine, item.foodId, ext)} :
          \E r \in {itemMacrosOf(TheEngine, got, item.portion)} :
             /\ lastCall' = [op |-> "computeItemMacrosInRuntime", foodId |-> item.foodId,
                             portion |-> item.portion, ext |-> ext, hasWindow |-> hasWindow,
                             resolved |-> got.ok /\ got.food # <<>>,
                             ok |-> r.ok, val |-> IF r.ok THEN r.val ELSE ZeroMacros,
                             warnings |-> itemWarnings(got, item.foodId, hasWindow)]
             /\ foodIndex' = r.index
  /\ UNCHANGED <<catalog, service, cache, now>>

\* portionToGrams applied to a quantity, a unit and a density
PortionToGrams ==
  /\ lastCall = Idle
  /\ \E quantity \in UnitQuantities, unit \in UnitStrings, density \in Densities :
       lastCall' = [op |-> "portionToGrams", quantity |-> quantity, unit |-> unit,
                    density |-> density,
                    result |-> portionToGrams(quantity, unit, density)]
  /\ UNCHANGED <<catalog, foodIndex, service, cache, now>>

\* a searchFoods call still waiting for a source
SearchPending == lastCall.op = "searchFoods" /\ lastCall.result.status = "pending"

\* the response is handed to the caller; nothing of it is kept
Discard ==
  /\ lastCall # Idle
  /\ ~SearchPending
  /\ lastCall' = Idle
  /\ UNCHANGED <<catalog, foodIndex, service, cache, now>>

Next ==
  \/ ComputeItemMacros
  \/ ComputeMealMacros
  \/ ComputeDayMacros
  \/ FindSubstitutions
  \/ Discard

Spec == Init /\ [][Next]_vars

\* the macro engine on its own
NextMacros ==
  \/ ComputeItemMacros
  \/ ComputeMealMacros
  \/ ComputeDayMacros
  \/ Discard

SpecMacros == Init /\ [][NextMacros]_vars

\* the resolution service on its own
NextService ==
  \/ Construct
  \/ Tick
  \/ SearchFoods
  \/ GetFoodByBarcode
  \/ GetFoodById
  \/ Discard

SpecService == InitService /\ [][NextService]_vars

\* the same with every step of the service eventually taken
SpecServiceLive == InitService /\ [][NextService]_vars /\ WF_vars(NextService)

\* every operation of the service, at one instant
NextRequests ==
  \/ Construct
  \/ SearchFoods
  \/ GetFoodById
  \/ GetFoodByBarcode
  \/ TestConnectivity
  \/ Discard

SpecRequests == InitService /\ [][NextRequests]_vars

\* a client that repeats its search at once
NextRepeat ==
  \/ Construct
  \/ Tick
  \/ SearchFoodsTwice
  \/ Discard

SpecRepeat == InitService /\ [][NextRepeat]_vars

\* a paginating client on a local-only service, within one TTL window
NextPaging ==
  \/ SearchNextPage
  \/ Discard

SpecPaging == InitLocalOnly /\ [][NextPaging]_vars

\* the macro engine asked for a portion and for its double
NextDoubling ==
  \/ ComputeItemMacrosTwice
  \/ Discard

SpecDoubling == Init /\ [][NextDoubling]_vars

\* the macro engine in its two runtimes
NextRuntime ==
  \/ ComputeItemMacrosInRuntime
  \/ Discard

SpecRuntime == Init /\ [][NextRuntime]_vars

\* the unit conversions on their own
NextUnits ==
  \/ PortionToGrams
  \/ Discard

SpecUnits == InitService /\ [][NextUnits]_vars

\* the substitution engine on its own
NextSubstitution ==
  \/ FindSubstitutions
  \/ Discard

SpecSubstitution == Init /\ [][NextSubstitution]_vars

\* the same on the food set with a record that cannot be evaluated
SpecSkipping == InitSkipping /\ [][NextSubstitution]_vars

\* ------------------------------------------------------------------------
\* Properties of findSubstitutions
\* ------------------------------------------------------------------------
Returned == lastCall.op = "findSubstitutions" /\ lastCall.result.status = "returned"

ReturnedCandidates == lastCall.result.candidates

\* the tolerance the caller asked for
RequestedTolerance ==
  IF lastCall.constraints.macroTolerancePercent = NoValue THEN 500
  ELSE lastCall.constraints.macroTolerancePercent

\* the same call with re-ranking disabled
WithoutReRanking ==
  findSubstitutions(lastCall.foodId, lastCall.portion, lastCall.constraints,
                    FALSE, lastCall.llm.response)

BoostApplied ==
  /\ lastCall.llm.enableLLMRanking
  /\ lastCall.llm.response.kind = "object"
  /\ lastCall.llm.response.rankingsKind = "array"
  /\ ReturnedCandidates # WithoutReRanking.candidates

InCatalog(food) == \E i \in 1..Len(catalog) : catalog[i] = food

\* C1: every returned candidate has an overall macro distance of at most the
\* requested tolerance (5 when none is supplied), with or without re-ranking.
C1_ToleranceCompliance ==
  Returned =>
    \A i \in 1..Len(ReturnedCandidates) :
       ReturnedCandidates[i].score.macroDistance.overallScore <= RequestedTolerance

\* a re-ranked answer under the default tolerance that left out a food whose
\* calories match but whose fat is 11% off, next to one under a supplied
\* tolerance of 8 that holds a candidate beyond 5
C1_Witness ==
  /\ Returned
  /\ BoostApplied
  /\ lastCall.constraints.macroTolerancePercent = 800
  /\ ~lastCall.constraints.preferences.given
  /\ InCatalog(TofuFood)
  /\ \E i \in 1..Len(ReturnedCandidates) :
        /\ ReturnedCandidates[i].food = TofuFood
        /\ ReturnedCandidates[i].score.macroDistance.overallScore > 500

DeclaredRestrictions ==
  lastCall.constraints.preferences.allergies \o lastCall.constraints.preferences.dislikes

\* C2: no returned candidate's lower-cased name contains a lower-cased allergy
\* or dislike.
C2_AllergyDislikeExclusion ==
  (Returned /\ lastCall.constraints.preferences.given) =>
    \A i \in 1..Len(ReturnedCandidates) :
      \A k \in 1..Len(DeclaredRestrictions) :
        ~includes(toLowerCase(ReturnedCandidates[i].food.name),
                  toLowerCase(DeclaredRestrictions[k]))

\* the allergy "Egg" kept "Egg, whole" out of an answer that holds another food
C2_Witness ==
  /\ Returned
  /\ lastCall.constraints.preferences.given
  /\ lastCall.constraints.preferences.allergies = <<<<"E","g","g">>>>
  /\ InCatalog(EggFood)
  /\ Len(ReturnedCandidates) >= 1
  /\ Len(findSubstitutions(lastCall.foodId, lastCall.portion,
                           [lastCall.constraints EXCEPT !.preferences = NoPreferences],
                           FALSE, lastCall.llm.response).candidates)
       > Len(WithoutReRanking.candidates)

AllergenCategoryWords ==
  <<<<"e","g","g">>, <<"a","l","m","o","n","d">>, <<"m","i","l","k">>,
    <<"c","h","e","e","s","e">>>>

\* C3: with the allergies nuts, dairy and eggs declared, no returned candidate
\* is named after egg, almond, milk or cheese.
C3_AllergenCategoryExclusion ==
  (/\ Returned
   /\ lastCall.constraints.preferences.given
   /\ lastCall.constraints.preferences.allergies =
        <<<<"n","u","t","s">>, <<"d","a","i","r","y">>, <<"e","g","g","s">>>>) =>
    \A i \in 1..Len(ReturnedCandidates) :
      \A k \in 1..Len(AllergenCategoryWords) :
        ~includes(toLowerCase(ReturnedCandidates[i].food.name), AllergenCategoryWords[k])

\* C4: a request for a food id that no known food carries fails with
\* 'Food not found: <id>' and returns no result.
C4_NotFoundError ==
  (/\ lastCall.op = "findSubstitutions"
   /\ \A i \in 1..Len(catalog) : catalog[i].id # lastCall.foodId) =>
    /\ lastCall.result.status = "thrown"
    /\ lastCall.result.err = <<"Food not found", lastCall.foodId>>

C4_Witness ==
  /\ lastCall.op = "findSubstitutions"
  /\ lastCall.foodId = "nope"
  /\ lastCall.portion = Portion(1000, "g")
  /\ Len(catalog) >= 2
  /\ lastCall.result.status = "thrown"

\* ------------------------------------------------------------------------
\* Properties of the macro engine
\* ------------------------------------------------------------------------
\* a resolved food is in the index when the call is over
Unresolved(foodId) == \A i \in 1..Len(foodIndex) : foodIndex[i].id # foodId

\* C5: computeItemMacros on a food that neither the index nor the hybrid
\* service resolves returns the all-zero profile and does not throw, whatever
\* the portion.
C5_UnknownFoodZero ==
  (lastCall.op = "computeItemMacros" /\ Unresolved(lastCall.foodId)) =>
    /\ lastCall.ok
    /\ lastCall.val = ZeroMacros

\* the hybrid lookup threw on an external id
C5_Witness ==
  /\ lastCall.op = "computeItemMacros"
  /\ lastCall.foodId = "off_1"
  /\ lastCall.ext = "throws"
  /\ Unresolved("off_1")
  /\ lastCall.ok

\* C6: computeMealMacros and computeDayMacros never fail.
C6_AggregationNeverFails ==
  lastCall.op \in {"computeMealMacros", "computeDayMacros"} => lastCall.ok

\* ------------------------------------------------------------------------
\* Properties of the re-ranking step
\* ------------------------------------------------------------------------
IllFormedEntry(r) == r.isNull \/ r.originalIndex = NoValue

\* the collaborator is unavailable or its output is missing or malformed
Unusable(response) ==
  \/ response.kind # "object"
  \/ response.rankingsKind # "array"
  \/ \E k \in 1..Len(response.rankings) : IllFormedEntry(response.rankings[k])

\* C7: with an unavailable collaborator or a missing or malformed answer the
\* result is the one of the call without re-ranking.
C7_ReRankingNoOp ==
  (Returned /\ lastCall.llm.enableLLMRanking /\ Unusable(lastCall.llm.response)) =>
    ReturnedCandidates = WithoutReRanking.candidates

FoodsOf(cs) == {cs[i].food : i \in 1..Len(cs)}

\* C8: re-ranking does not change which foods are returned.
C8_ReRankingKeepsFoods ==
  (Returned /\ lastCall.llm.enableLLMRanking) =>
    FoodsOf(ReturnedCandidates) = FoodsOf(WithoutReRanking.candidates)

\* the limit the caller asked for
RequestedLimit ==
  IF lastCall.constraints.maxSuggestions = NoValue THEN 10
  ELSE lastCall.constraints.maxSuggestions

\* C9: the returned candidates are in non-increasing order of totalScore and
\* are at most maxSuggestions (10 by default).
C9_SortedAndLimited ==
  Returned =>
    /\ Len(ReturnedCandidates) <= RequestedLimit
    /\ \A i \in 1..(Len(ReturnedCandidates) - 1) :
         ReturnedCandidates[i].score.totalScore >= ReturnedCandidates[i + 1].score.totalScore

\* two candidates whose order the boosts turned around
C9_Witness ==
  /\ Returned
  /\ BoostApplied
  /\ Len(ReturnedCandidates) = 2
  /\ Len(WithoutReRanking.candidates) = 2
  /\ WithoutReRanking.candidates[1].food = ReturnedCandidates[2].food

\* C10: no returned candidate carries the id of the original food.
C10_OriginalExcluded ==
  Returned =>
    \A i \in 1..Len(ReturnedCandidates) :
       /\ ReturnedCandidates[i].food.id # lastCall.foodId
       /\ ReturnedCandidates[i].food.id # lastCall.result.originalFood[1].id

\* the food set holds two records with the id of the original
C10_Witness ==
  /\ Returned
  /\ InCatalog(ChickenFood)
  /\ InCatalog(ChickenOffFood)
  /\ Len(ReturnedCandidates) >= 1

\* the floor the caller asked for
RequestedMinConfidence ==
  IF lastCall.constraints.minConfidence = NoValue THEN 70
  ELSE lastCall.constraints.minConfidence

\* C11: under the default tolerance every returned candidate has each of
\* caloriesPercent, proteinPercent, carbsPercent and fatPercent at most 5.
C11_PerMacroTolerance ==
  (Returned /\ lastCall.constraints.macroTolerancePercent = NoValue) =>
    \A i \in 1..Len(ReturnedCandidates) :
       /\ ReturnedCandidates[i].score.macroDistance.caloriesPercent <= 500
       /\ ReturnedCandidates[i].score.macroDistance.proteinPercent <= 500
       /\ ReturnedCandidates[i].score.macroDistance.carbsPercent <= 500
       /\ ReturnedCandidates[i].score.macroDistance.fatPercent <= 500

\* C12: no returned candidate carries a confidence below the requested floor
\* (0.7 when none is supplied), for every confidence from 0 to 1.
C12_MinConfidence ==
  Returned =>
    \A i \in 1..Len(ReturnedCandidates) :
       ReturnedCandidates[i].food.metadata.confidence # NoValue
         => ReturnedCandidates[i].food.metadata.confidence >= RequestedMinConfidence

\* a searchFoods call that returned a FoodSearchResult
SearchReturned == lastCall.op = "searchFoods" /\ lastCall.result.status = "returned"

SearchedFoods == lastCall.result.foods

\* C13: no FoodSearchResult of searchFoods, on any return path, holds two
\* foods with the same normalized name key.
C13_NoDuplicateKeys ==
  SearchReturned =>
    \A i \in 1..Len(SearchedFoods) : \A j \in 1..Len(SearchedFoods) :
       i # j => nameKey(SearchedFoods[i].name) # nameKey(SearchedFoods[j].name)

\* the external sources the service queries
EnabledExternalSources ==
  (IF service.options.enableOpenFoodFacts THEN {"open_food_facts"} ELSE {})
    \cup (IF service.options.enableUsdaFdc /\ service.usdaFdcClient THEN {"usda_fdc"} ELSE {})

\* a searchFoods call past the cache that came to an end, on a service with
\* the local database enabled, in which every enabled external source threw
EveryExternalSourceThrew ==
  /\ lastCall.op = "searchFoods"
  /\ lastCall.result.path # "cache"
  /\ lastCall.result.status # "pending"
  /\ service.options.enableLocalDatabase
  /\ lastCall.result.failed = EnabledExternalSources

\* the local-catalog matches for the query of the call, up to maxResults
LocalMatches == sliceFoods(searchLocalFoods(lastCall.query), service.options.maxResults)

FoodIds(foods) == [i \in 1..Len(foods) |-> foods[i].id]

\* no earlier food of the sequence has the name key of the i-th
FirstOfKey(foods, i) ==
  \A j \in 1..(i - 1) : nameKey(foods[j].name) # nameKey(foods[i].name)

\* C14 as stated: if every enabled external source throws and the local
\* database is enabled, searchFoods does not throw and returns the local
\* matches for the query, up to maxResults.
C14_FallbackToLocalMatches ==
  EveryExternalSourceThrew =>
    /\ lastCall.result.status = "returned"
    /\ FoodIds(SearchedFoods) = FoodIds(LocalMatches)

\* C14 amended: if every enabled external source throws and the local database
\* is enabled, searchFoods does not throw and returns, of the first maxResults
\* local matches for the query, each one that is the first of its normalized
\* name key, and nothing else.
C14_FallbackToLocal ==
  EveryExternalSourceThrew =>
    /\ lastCall.result.status = "returned"
    /\ \A k \in 1..Len(SearchedFoods) :
         \E i \in 1..Len(LocalMatches) :
            LocalMatches[i].id = SearchedFoods[k].id /\ FirstOfKey(LocalMatches, i)
    /\ \A i \in 1..Len(LocalMatches) :
         FirstOfKey(LocalMatches, i) =>
           \E k \in 1..Len(SearchedFoods) : SearchedFoods[k].id = LocalMatches[i].id
    /\ \A k \in 1..Len(SearchedFoods) : \A l \in 1..Len(SearchedFoods) :
         k # l => SearchedFoods[k].id # SearchedFoods[l].id

\* both external sources threw and the local matches came back
C14_Witness ==
  /\ EveryExternalSourceThrew
  /\ lastCall.result.failed = {"open_food_facts", "usda_fdc"}
  /\ lastCall.result.status = "returned"
  /\ Len(SearchedFoods) > 0

\* ------------------------------------------------------------------------
\* Properties of searchFoods in time
\* ------------------------------------------------------------------------
\* C15: with the local database enabled, a searchFoods call that waits for an
\* external source that never responds eventually returns all the same.
C15_SearchEventuallyReturns ==
  (SearchPending /\ service.options.enableLocalDatabase) ~> ~SearchPending

\* a step that is a call of searchFoods
SearchCalled == lastCall.op = "idle" /\ lastCall'.op = "searchFoods"

\* the cache key of the call made in this step
CalledKey == cacheKey(lastCall'.query, lastCall'.page)

\* C16: a call of searchFoods is answered from the cache only with the entry
\* of its (query, page) whose age is below the TTL of 5 minutes; an entry of
\* that key whose age has reached the TTL is not served: it is removed and
\* the call goes to the sources.
C16_CacheWithinTTL ==
  [][SearchCalled =>
       /\ lastCall'.result.path = "cache" =>
            \E e \in cache : /\ e.key = CalledKey
                             /\ now - e.timestamp < CacheExpiryMs
                             /\ lastCall'.result.foods = e.data
       /\ \A e \in cache :
            (e.key = CalledKey /\ now - e.timestamp >= CacheExpiryMs) =>
               (lastCall'.result.path # "cache" /\ e \notin cache')]_vars

\* an entry stored at 0 is served one millisecond before it expires
C16_Witness ==
  /\ SearchReturned
  /\ lastCall.result.path = "cache"
  /\ lastCall.at = CacheExpiryMs - 1
  /\ \E e \in cache : e.key = cacheKey(lastCall.query, lastCall.page) /\ e.timestamp = 0

\* C17: the search cache is bounded: whatever the sequence of searchFoods
\* calls, it never holds more entries than the size threshold lets in before
\* a clean-up (the threshold and the entry that crosses it).
C17_CacheBounded == Cardinality(cache) <= CacheSizeThreshold + 1

\* ------------------------------------------------------------------------
\* Properties of the lookups and of the configuration
\* ------------------------------------------------------------------------
\* the answers of the barcode endpoint that mean the product does not exist
NotFoundResponses == {"http404", "status0"}

\* the answers that are failures of the endpoint
FailureResponses == {"network", "http500", "noProduct"}

\* C18: getFoodByBarcode returns null only when the product is not found
\* (HTTP 404 or status 0); a network error, another HTTP error or an invalid
\* response format reaches the caller as an error, not as null.
C18_BarcodeFailuresReported ==
  lastCall.op = "getFoodByBarcode" =>
    /\ (lastCall.result.status = "returned" /\ lastCall.result.food = <<>>) =>
          lastCall.response \in NotFoundResponses
    /\ lastCall.response \in FailureResponses => lastCall.result.status = "thrown"

\* the service was constructed with every source disabled
NoSourceEnabled ==
  /\ ~service.options.enableOpenFoodFacts
  /\ ~service.options.enableUsdaFdc
  /\ ~service.options.enableLocalDatabase

\* C19: searchFoods on a service with every source disabled fails with an
\* error instead of returning a FoodSearchResult.
C19_NoSourceIsAnError ==
  (lastCall.op = "searchFoods" /\ NoSourceEnabled) => lastCall.result.status = "thrown"

SeqToSet(foods) == {foods[i] : i \in 1..Len(foods)}

\* the FoodItems the last call of the service handed to its caller
ServedFoods ==
  IF SearchReturned THEN SeqToSet(SearchedFoods)
  ELSE IF lastCall.op = "getFoodByBarcode" THEN SeqToSet(lastCall.result.food)
  ELSE IF lastCall.op = "getFoodById" /\ lastCall.result.ok THEN SeqToSet(lastCall.result.val)
  ELSE {}

\* C20: every FoodItem returned by searchFoods, getFoodById or
\* getFoodByBarcode carries metadata.source and a metadata.confidence in
\* [0, 1], whichever source produced it.
C20_SourceAndConfidence ==
  \A f \in ServedFoods :
     /\ f.metadata.source # "none"
     /\ f.metadata.confidence >= 0
     /\ f.metadata.confidence <= 100

\* ------------------------------------------------------------------------
\* Properties of the scores
\* ------------------------------------------------------------------------
\* a score in hundredths of a point within [0, 100]
InScoreRange(score) == score >= 0 /\ score <= 10000

\* C21: for every candidate returned by findSubstitutions, macroScore,
\* preferenceScore, availabilityScore, costScore and totalScore each lie in
\* [0, 100], also after the boosts of LLM re-ranking.
C21_ScoresInRange ==
  Returned =>
    \A i \in 1..Len(ReturnedCandidates) :
       /\ InScoreRange(ReturnedCandidates[i].score.macroScore)
       /\ InScoreRange(ReturnedCandidates[i].score.preferenceScore)
       /\ InScoreRange(ReturnedCandidates[i].score.availabilityScore)
       /\ InScoreRange(ReturnedCandidates[i].score.costScore)
       /\ ReturnedCandidates[i].score.totalScore >= 0
       /\ ReturnedCandidates[i].score.totalScore <= 100000

\* ------------------------------------------------------------------------
\* Properties of the unit conversion
\* ------------------------------------------------------------------------
\* the mass units, the volume units and 'piece'
SupportedUnits == {"g", "kg", "mg", "lb", "oz", "ml", "l", "tsp", "tbsp", "cup", "piece"}

\* C22: for every unit string other than the mass units, the volume units and
\* 'piece', portionToGrams fails with the unsupported-unit error and returns
\* nothing.
C22_UnsupportedUnitFails ==
  (lastCall.op = "portionToGrams" /\ lastCall.unit \notin SupportedUnits) =>
     (~lastCall.result.ok /\ lastCall.result.err = "Unsupported unit")

\* ------------------------------------------------------------------------
\* Properties of the macro engine
\* ------------------------------------------------------------------------
RECURSIVE Flatten(_)
\* the items of all the meals, in order
Flatten(meals) == IF meals = <<>> THEN <<>> ELSE Head(meals) \o Flatten(Tail(meals))

\* a step that is a call of computeDayMacros
DayCalled == lastCall.op = "idle" /\ lastCall'.op = "computeDayMacros"

TwiceField(a, b) == IF a = NoValue THEN b = NoValue ELSE b = 2 * a

\* C24: computeItemMacros is linear in the quantity: when the call for
\* quantity k returns, the call for 2k returns twice its value in every macro
\* field, for mass units, volume units with a density and pieces with a
\* piece mapping.
C24_DoublingDoubles ==
  (lastCall.op = "computeItemMacrosTwice" /\ lastCall.single.ok) =>
     /\ lastCall.double.ok
     /\ lastCall.double.val.caloriesKcal = 2 * lastCall.single.val.caloriesKcal
     /\ lastCall.double.val.proteinG = 2 * lastCall.single.val.proteinG
     /\ lastCall.double.val.carbsG = 2 * lastCall.single.val.carbsG
     /\ lastCall.double.val.fatG = 2 * lastCall.single.val.fatG
     /\ TwiceField(lastCall.single.val.fiberG, lastCall.double.val.fiberG)
     /\ TwiceField(lastCall.single.val.sugarG, lastCall.double.val.sugarG)

\* three pieces of a food with a piece mapping, without fiberG
C24_Witness ==
  /\ lastCall.op = "computeItemMacrosTwice"
  /\ lastCall.portion = Portion(30, "piece")
  /\ lastCall.single.ok
  /\ lastCall.single.val.caloriesKcal > 0
  /\ lastCall.single.val.fiberG = NoValue
  /\ lastCall.double.val.sugarG > lastCall.single.val.sugarG

\* ------------------------------------------------------------------------
\* Properties of the evaluation of candidates
\* ------------------------------------------------------------------------
\* the original food of the call is known and its macros can be computed
OriginalComputable ==
  /\ getFood(SubstitutionMacroEngine, lastCall.foodId, "notfound").food # <<>>
  /\ computeItemMacros(SubstitutionMacroEngine, lastCall.foodId, lastCall.portion,
                       "notfound").ok

\* evaluating the food as a candidate throws
EvaluationThrows(food) ==
  /\ food.id # lastCall.foodId
  /\ ~calculateOptimalPortion(food, lastCall.result.originalMacros).ok

\* the food evaluated on its own yields a candidate
YieldsCandidate(food) ==
  evaluateCandidate(lastCall.result.originalFood[1], lastCall.result.originalMacros,
                    food, lastCall.result.constraintsApplied) # <<>>

\* C25: when the evaluation of a candidate throws, findSubstitutions still
\* returns; the candidate is not in the result, and every other food of the
\* food set that yields a candidate is in it, up to maxSuggestions.
C25_CandidateErrorsSkipped ==
  (lastCall.op = "findSubstitutions" /\ OriginalComputable) =>
     /\ lastCall.result.status = "returned"
     /\ \A i \in 1..Len(ReturnedCandidates) : ~EvaluationThrows(ReturnedCandidates[i].food)
     /\ \A j \in 1..Len(catalog) :
          YieldsCandidate(catalog[j]) =>
             \/ \E i \in 1..Len(ReturnedCandidates) : ReturnedCandidates[i].food = catalog[j]
             \/ Len(ReturnedCandidates) = RequestedLimit

\* a food placed after the one that throws is returned
C25_Witness ==
  /\ Returned
  /\ \E j \in 1..Len(catalog) :
       /\ EvaluationThrows(catalog[j])
       /\ \E i \in 1..Len(ReturnedCandidates) :
            \E k \in (j + 1)..Len(catalog) : ReturnedCandidates[i].food = catalog[k]

\* ------------------------------------------------------------------------
\* Properties of the unknown-food degradation
\* ------------------------------------------------------------------------
\* C26: whenever computeItemMacros returns the all-zero profile because the
\* food could not be resolved, a warning naming the foodId was written, in the
\* browser and on the server alike.
C26_UnknownFoodWarned ==
  (/\ lastCall.op = "computeItemMacrosInRuntime"
   /\ lastCall.ok
   /\ ~lastCall.resolved
   /\ lastCall.val = ZeroMacros) => lastCall.warnings = <<lastCall.foodId>>

\* ------------------------------------------------------------------------
\* Properties of repeated searches
\* ------------------------------------------------------------------------
\* the call was answered from the cache
ServedFromCache == SearchReturned /\ lastCall.result.path = "cache"

\* the cache entry of the call's (query, page)
CalledEntry == cacheGet(cache, cacheKey(lastCall.query, lastCall.page))

\* what the call that stored the entry returned: the stored list cut to
\* maxResults (the return at the end of the try block)
FirstReturned(e) == sliceFoods(e.data, service.options.maxResults)

\* C27: a second searchFoods for the same (query, page) within the TTL
\* returns the list the first call returned: the same items, the same
\* length, at most maxResults, whatever the sources and their results.
C27_SecondCallSameList ==
  ServedFromCache =>
     /\ lastCall.result.foods = FirstReturned(CalledEntry)
     /\ Len(lastCall.result.foods) <= service.options.maxResults

\* the first of the two calls returned although the source threw
FailedInFirst(source) ==
  /\ lastCall.op = "searchFoodsTwice"
  /\ lastCall.first.status = "returned"
  /\ lastCall.second.status = "returned"
  /\ source \in lastCall.first.failed

\* an item of the source is among the foods
HasItemOf(foods, source) == \E i \in 1..Len(foods) : foods[i].metadata.source = source

RequestsIssued ==
  IF lastCall.op \in {"searchFoods", "testConnectivity"} THEN lastCall.result.requests
  ELSE IF lastCall.op \in {"getFoodById", "getFoodByBarcode"} THEN lastCall.requests
  ELSE <<>>

Queried(source) == \E i \in 1..Len(RequestsIssued) : RequestsIssued[i] = source

\* C29: a source disabled in the options is never queried: with
\* enableOpenFoodFacts false, neither searchFoods, nor getFoodById with an
\* 'off_' id, nor getFoodByBarcode, nor testConnectivity issues a request to
\* Open Food Facts.
C29_DisabledSourceNotQueried ==
  ~service.options.enableOpenFoodFacts => ~Queried("open_food_facts")

\* ------------------------------------------------------------------------
\* Properties of the source label
\* ------------------------------------------------------------------------
\* the sources the returned foods come from
SourcesPresent == {SearchedFoods[i].metadata.source : i \in 1..Len(SearchedFoods)}

\* C30: the source label of a search result matches its contents: 'local',
\* 'open_food_facts' or 'usda_fdc' only if every returned food comes from
\* that source, 'hybrid' only if foods of more than one source are returned.
C30_SourceLabelMatches ==
  SearchReturned =>
     /\ lastCall.result.source \in {"local", "open_food_facts", "usda_fdc"} =>
           SourcesPresent \subseteq {lastCall.result.source}
     /\ lastCall.result.source = "hybrid" => Cardinality(SourcesPresent) > 1

====
